---- MODULE Spec2Model ----
(***************************************************************************)
(* Task/project manager (Express routes over Mongoose models).             *)
(*                                                                         *)
(* The state is the document store (one Project collection, one Task       *)
(* collection), the requests in flight (a handler between two of its store *)
(* calls, holding the document it read) and the HTTP response sent by the  *)
(* last step (none when that step went on to a store call), together with  *)
(* the lifecycle event that step emitted to a project's channel, if any.   *)
(* Requests in flight form a bag: Node serves any number of them, and two  *)
(* of them may be equal.                                                   *)
(* A handler is cut at its store calls: the synchronous code between two   *)
(* awaits belongs to the step of the store call that precedes it, so an    *)
(* early return (400/403/404) is part of the step that reads the document. *)
(* save() of a loaded document writes the modified paths only ($set of the *)
(* changed fields, $push for an array push), as Mongoose does.             *)
(***************************************************************************)
EXTENDS Integers, Sequences, FiniteSets, Bags, TLC

\* ------------------------------------------------------------------ bounds
NumUsers == 3
NumProjects == 1
NumTasks == 1
MaxInFlight == 2
MaxComments == 2
\* instants of the clock (dates are instants 1..MaxTime)
MaxTime == 3
\* subtasks of a task
MaxSubtasks == 40
\* the stores over which the task list is computed
NumListProjects == 2
NumListTasks == 2

Users == 1..NumUsers
ProjectIds == 1..NumProjects
TaskIds == 1..NumTasks

\* ------------------------------------------------------------- documents
\* Project.js: members[].role enum
MemberRoles == {"owner", "admin", "member", "viewer"}
\* projects.js: body('role').optional().isIn([...])
AddableRoles == {"admin", "member", "viewer"}
\* Task.js: status enum
TaskStatuses == {"todo", "in-progress", "review", "completed", "cancelled"}

\* Request inputs (a value outside the validator's list is included where a
\* validator exists).
RoleInputs == {"undefined", "admin", "member", "viewer", "owner"}
ProjectStatusInputs == {"undefined", "active", "bogus"}
StatusInputs == {"undefined", "todo", "review", "completed", "bogus"}
ProgressInputs == {-1, 40, 100, 150}
\* numbers a body may carry as progress and as estimatedHours: below, at and
\* above the ends of the schema's ranges (-1 stands for a field left out)
RangeProgressInputs == {-1, -5, 0, 100, 101}
HoursInputs == {-1, -5, 0, 8, 1000, 1001}

\* A store slot that never held a document / whose document was deleted has
\* st = "fresh" / "deleted"; ObjectIds are never reused.
NoProject == [st |-> "fresh", owner |-> 0, members |-> <<>>, status |-> "planning"]
\* a Date that is not set (null or undefined); a Date that is set is an
\* instant of 1..MaxTime
NoDate == 0

\* a Number that is not set (null or undefined), and a numeric field the
\* body of a request leaves out
NoNumber == -1

NoTask == [st |-> "fresh", project |-> 0, reporter |-> 0, assignee |-> 0,
           status |-> "todo", progress |-> 0, completedAt |-> "undefined",
           comments |-> <<>>, isArchived |-> FALSE, dueDate |-> NoDate,
           subtasks |-> <<>>, estimatedHours |-> NoNumber, actualHours |-> 0]

\* localStorage.getItem('token') of a browser that stores none, and the value
\* of currentUserSubject when nobody is signed in (null)
NoToken == 0
NoUser == 0

\* The back end: the store, the requests it is serving and its last response.
\* The front end's AuthService: the token in localStorage, the values of its
\* two subjects, and the HTTP requests it has sent and not yet heard of.
VARIABLES projects, tasks, inflight, resp,
          token, currentUser, isAuthenticated, pending

server == <<projects, tasks, inflight, resp>>
client == <<token, currentUser, isAuthenticated, pending>>
vars == <<projects, tasks, inflight, resp, token, currentUser, isAuthenticated, pending>>
store == <<projects, tasks>>

\* Nobody is signed in: no token stored, both subjects at their first values.
SignedOut == token = NoToken /\ currentUser = NoUser /\ isAuthenticated = FALSE

\* $group by status of no task at all (a status without a task has no group)
NoStats == [s \in TaskStatuses |-> 0]

\* What a response carries besides its message: the status distribution and
\* the total of the dashboard, and the tasks a list holds.
NoBody == [statusStats |-> NoStats, totalTasks |-> 0, tasks |-> {}]

\* the author of the comment a response (or event) carries; 0: no comment
NoAuthor == 0

\* the virtuals of a task sent as JSON (toJSON: { virtuals: true }); those of
\* a response that holds no task
NoVirtuals == [isOverdue |-> FALSE, subtaskProgress |-> 0]

\* const filter = { isArchived: false }; a status that is not filtered on is
\* "undefined", project is the set of project ids a task may have
NoFilter == [isArchived |-> FALSE, status |-> "undefined", project |-> {}]

\* A request in flight: the handler's position (pc names the store call it
\* awaits) and what the rest of the handler reads: the ids of the route, the
\* body, the document read, and req.user (caller) where it is still used.
Req(pc, u, p, t) ==
  [pc |-> pc, caller |-> u, pid |-> p, tid |-> t, userId |-> 0,
   role |-> "undefined", status |-> "undefined", progress |-> -1,
   estimatedHours |-> NoNumber,
   assignee |-> 0, stale |-> FALSE, snap |-> NoTask,
   projectIds |-> {}, statusStats |-> NoStats, recentActivity |-> {},
   filter |-> NoFilter, found |-> {}]

InFlight == BagToSet(inflight)

NoResp == [kind |-> "none", code |-> 0, message |-> "", event |-> "none", room |-> 0,
           body |-> NoBody, comment |-> NoAuthor, virtuals |-> NoVirtuals]

\* res.status(code).json({ message }); a validator's 400 carries { errors }, a
\* document sent as the body has no message
Response(kind, code, message) ==
  [kind |-> kind, code |-> code, message |-> message, event |-> "none", room |-> 0,
   body |-> NoBody, comment |-> NoAuthor, virtuals |-> NoVirtuals]

\* req.io.to(room).emit(event, ...) ahead of the response
Emit(event, room, response) == [response EXCEPT !.event = event, !.room = room]

Live(doc) == doc.st = "live"

\* ------------------------------------------------- authorization checks
MemberUsers(project) == {project.members[k].user : k \in DOMAIN project.members}

\* hasAccess: owner, or some member entry names the user
hasAccess(u, project) ==
  \/ project.owner = u
  \/ \E k \in DOMAIN project.members : project.members[k].user = u

isOwner(u, project) == project.owner = u

\* Mutant of isAdmin: the role of the member entry is not compared.
isAdmin_AnyRole(u, project) ==
  \E k \in DOMAIN project.members : project.members[k].user = u

isAdmin(u, project) ==
  \E k \in DOMAIN project.members :
    project.members[k].user = u /\ project.members[k].role = "admin"

canManage(u, project) == isOwner(u, project) \/ isAdmin(u, project)

\* Mutant of canDeleteProject: whoever may manage the project may delete it.
canDeleteProject_Managers(u, project) == canManage(u, project)

\* projects.js DELETE /:id : only the owner
canDeleteProject(u, project) == project.owner = u

\* Mutant of canDelete: admin members may delete as well.
canDelete_Admins(u, task, project) ==
  project.owner = u \/ task.reporter = u \/ isAdmin(u, project)

\* tasks DELETE /:id : project owner or task reporter
canDelete(u, task, project) == project.owner = u \/ task.reporter = u

\* ------------------------------------------------------ Project model
ownerExists(doc) ==
  \E k \in DOMAIN doc.members : doc.members[k].user = doc.owner

\* projectSchema.pre('save')
preSaveProject(doc, isNew) ==
  IF isNew /\ ~ownerExists(doc)
  THEN [doc EXCEPT !.members = Append(@, [user |-> doc.owner, role |-> "owner"])]
  ELSE doc

\* Mutant of existingMember: only the owner counts as a member already.
existingMember_OwnerOnly(project, userId) == userId = project.owner

existingMember(project, userId) ==
  \E k \in DOMAIN project.members : project.members[k].user = userId

\* Mutant of validRole: the validator's list holds every role of the schema.
validRole_AcceptsOwner(role) == role = "undefined" \/ role \in MemberRoles

\* projects.js: body('role').optional().isIn(['admin', 'member', 'viewer'])
validRole(role) == role = "undefined" \/ role \in AddableRoles

\* const { userId, role = 'member' } = req.body
roleOrDefault(role) == IF role = "undefined" THEN "member" ELSE role

\* project.members.filter(member => member.user.toString() !== userId)
filterMembers(members, userId) == SelectSeq(members, LAMBDA m : m.user # userId)

validProjectStatus(s) ==
  s = "undefined" \/ s \in {"planning", "active", "on-hold", "completed", "cancelled"}

FreshProjects == {p \in ProjectIds : projects[p].st = "fresh"}
FreshTasks == {t \in TaskIds : tasks[t].st = "fresh"}

\* ------------------------------------------------------ Task model
validTaskStatus(s) == s = "undefined" \/ s \in TaskStatuses

\* taskSchema progress: min 0, max 100
validProgress(n) == n >= 0 /\ n <= 100

\* Mutant of validHours: the schema has no max.
validHours_NoMax(h) == h = NoNumber \/ h >= 0

\* taskSchema estimatedHours, actualHours: min 0, max 1000; the validators
\* pass a value that is not set
validHours(h) == h = NoNumber \/ (h >= 0 /\ h <= 1000)

\* Mutant of preSaveTask: the completion branch forgets this.progress = 100.
preSaveTask_KeepsProgress(doc, modifiedStatus) ==
  LET d1 == IF modifiedStatus /\ doc.status = "completed" /\ doc.completedAt = "undefined"
            THEN [doc EXCEPT !.completedAt = "date"]
            ELSE doc
  IN IF modifiedStatus /\ d1.status # "completed" /\ d1.completedAt # "undefined"
     THEN [d1 EXCEPT !.completedAt = "undefined"]
     ELSE d1

\* Mutant of preSaveTask: the branch that resets completedAt is missing.
preSaveTask_NeverResets(doc, modifiedStatus) ==
  IF modifiedStatus /\ doc.status = "completed" /\ doc.completedAt = "undefined"
  THEN [doc EXCEPT !.completedAt = "date", !.progress = 100]
  ELSE doc

\* Mutant of preSaveTask: the branch that stamps completedAt is missing.
preSaveTask_NeverStamps(doc, modifiedStatus) ==
  IF modifiedStatus /\ doc.status # "completed" /\ doc.completedAt # "undefined"
  THEN [doc EXCEPT !.completedAt = "undefined"]
  ELSE doc

\* taskSchema.pre('save'); modifiedStatus is this.isModified('status')
preSaveTask(doc, modifiedStatus) ==
  LET d1 == IF modifiedStatus /\ doc.status = "completed" /\ doc.completedAt = "undefined"
            THEN [doc EXCEPT !.completedAt = "date", !.progress = 100]
            ELSE doc
  IN IF modifiedStatus /\ d1.status # "completed" /\ d1.completedAt # "undefined"
     THEN [d1 EXCEPT !.completedAt = "undefined"]
     ELSE d1

\* updateFields.forEach(field => if (req.body[field] !== undefined) task[field] = ...)
assignFields(snap, status, progress) ==
  [snap EXCEPT !.status = IF status = "undefined" THEN @ ELSE status,
               !.progress = IF progress = -1 THEN @ ELSE progress]

\* save() of a loaded document: $set of the paths whose value differs from
\* the value read.
applyDelta(stored, snap, local) ==
  [stored EXCEPT !.status = IF local.status # snap.status THEN local.status ELSE @,
                 !.estimatedHours = IF local.estimatedHours # snap.estimatedHours
                                    THEN local.estimatedHours ELSE @,
                 !.progress = IF local.progress # snap.progress THEN local.progress ELSE @,
                 !.completedAt = IF local.completedAt # snap.completedAt
                                 THEN local.completedAt ELSE @]

\* the whole of PUT /tasks/:id between the read and the write
updatedTask(snap, status, progress) ==
  LET local == assignFields(snap, status, progress)
  IN preSaveTask(local, local.status # snap.status)

\* new Task({...}) of POST /tasks, then pre('save') on the new document; no
\* route assigns isArchived, which keeps the schema's default
newTask(u, p, status) ==
  preSaveTask([st |-> "live", project |-> p, reporter |-> u, assignee |-> 0,
               status |-> IF status = "undefined" THEN "todo" ELSE status,
               progress |-> 0, completedAt |-> "undefined", comments |-> <<>>,
               isArchived |-> FALSE, dueDate |-> NoDate, subtasks |-> <<>>,
               estimatedHours |-> NoNumber, actualHours |-> 0],
              TRUE)

\* estimatedHours: estimatedHours || null of POST /tasks (0 is falsy)
estimateOrNull(hours) == IF hours = 0 THEN NoNumber ELSE hours

\* task.estimatedHours = req.body.estimatedHours of PUT /tasks/:id, unless
\* the body leaves it out
assignHours(doc, hours) ==
  [doc EXCEPT !.estimatedHours = IF hours = NoNumber THEN @ ELSE hours]

\* Mutant of isOverdue: the status of the task is not looked at.
isOverdue_IgnoresStatus(task, now) ==
  IF task.dueDate = NoDate THEN FALSE ELSE now > task.dueDate

\* taskSchema.virtual('isOverdue'); now is new Date()
isOverdue(task, now) ==
  IF task.dueDate = NoDate \/ task.status = "completed" THEN FALSE
  ELSE now > task.dueDate

\* ---- Number arithmetic of subtaskProgress. A Number is an IEEE 754 double:
\* a positive one is held as its Precision significand bits, the first of
\* them 1, and its exponent: [bits |-> b, exp |-> e] is 0.b[1]b[2]... * 2^e.
Precision == 53

Zeros(k) == [i \in 1..k |-> 0]

RECURSIVE pow2mod(_, _)
\* 2^i modulo n
pow2mod(i, n) ==
  IF i = 0 THEN 1 % n
  ELSE LET h == pow2mod(i \div 2, n)
       IN (h * h * (IF i % 2 = 1 THEN 2 ELSE 1)) % n

\* what is left of c * 2^i once the multiples of n are taken out
remainderAt(c, n, i) == (c * pow2mod(i, n)) % n

\* the binary digit of weight 2^(-i) of c / n, 0 < c <= n
quotientDigit(c, n, i) ==
  IF i = 0 THEN c \div n ELSE (2 * remainderAt(c, n, i - 1)) \div n

\* how many binary digits of c / n, from the units digit on, come before its
\* first 1
leadingZeros(c, n) ==
  CHOOSE z \in 0..n :
    quotientDigit(c, n, z) = 1 /\ \A i \in 0..(z - 1) : quotientDigit(c, n, i) = 0

\* the sum of two numbers of as many bits and of a carry into the last bit,
\* one bit longer: bit i takes a carry when a place after it makes one and
\* every place between passes it on
addBits(a, b, carry) ==
  LET L == Len(a)
      makes(j) == IF j = L + 1 THEN carry = 1 ELSE a[j] + b[j] = 2
      passes(j) == a[j] + b[j] = 1
      carryInto(i) ==
        IF \E j \in (i + 1)..(L + 1) : makes(j) /\ \A k \in (i + 1)..(j - 1) : passes(k)
        THEN 1 ELSE 0
  IN <<carryInto(0)>> \o [i \in 1..L |-> (a[i] + b[i] + carryInto(i)) % 2]

\* the bits of a number plus one unit of its last bit, one bit longer
increment(bits) == addBits(bits, Zeros(Len(bits)), 1)

\* the bits from the first 1 on
stripZeros(bits) ==
  IF \A i \in DOMAIN bits : bits[i] = 0 THEN <<>>
  ELSE LET first == CHOOSE i \in DOMAIN bits :
                      bits[i] = 1 /\ \A j \in 1..(i - 1) : bits[j] = 0
       IN SubSeq(bits, first, Len(bits))

\* round to nearest, ties to even: digits is a first 1 and at least Precision
\* more digits, sticky says that nonzero digits follow them; the Number
\* 0.digits * 2^exp
roundDouble(digits, sticky, exp) ==
  LET kept == SubSeq(digits, 1, Precision)
      rest == SubSeq(digits, Precision + 1, Len(digits))
      half == rest[1] = 1
      more == sticky \/ \E i \in 2..Len(rest) : rest[i] = 1
      up == half /\ (more \/ kept[Precision] = 1)
      sum == IF up THEN increment(kept) ELSE <<0>> \o kept
  IN IF sum[1] = 1
     THEN [bits |-> SubSeq(sum, 1, Precision), exp |-> exp + 1]
     ELSE [bits |-> Tail(sum), exp |-> exp]

\* completed / this.subtasks.length, 0 < c <= n
divide(c, n) ==
  LET z == leadingZeros(c, n)
      digits == <<1>> \o [i \in 1..Precision |-> quotientDigit(c, n, z + i)]
  IN roundDouble(digits, remainderAt(c, n, z + Precision) # 0, 1 - z)

\* x * 100: 100 x = 4 * (16 x + 8 x + x)
times100(x) ==
  LET m == x.bits
      x16 == <<0>> \o m \o Zeros(4)
      x8 == <<0, 0>> \o m \o Zeros(3)
      x1 == Zeros(5) \o m
      x24 == addBits(x16, x8, 0)
      x25 == stripZeros(addBits(x24, <<0>> \o x1, 0))
  IN roundDouble(x25 \o <<0>>, FALSE, x.exp - Precision + 2 + Len(x25))

RECURSIVE valueOf(_)
\* the integer a sequence of bits is
valueOf(bits) ==
  IF bits = <<>> THEN 0 ELSE 2 * valueOf(SubSeq(bits, 1, Len(bits) - 1)) + bits[Len(bits)]

\* Math.round(x), 0 < x: floor(x + 0.5)
mathRound(x) ==
  IF x.exp < 0 THEN 0
  ELSE valueOf(SubSeq(x.bits, 1, x.exp)) + x.bits[x.exp + 1]

\* taskSchema.virtual('subtaskProgress')
subtaskProgress(task) ==
  IF Len(task.subtasks) = 0 THEN 0
  ELSE LET completed == Cardinality({k \in DOMAIN task.subtasks : task.subtasks[k].completed})
       IN IF completed = 0 THEN 0
          ELSE mathRound(times100(divide(completed, Len(task.subtasks))))

\* the virtuals of a task serialized at the instant now
virtualsOf(task, now) ==
  [isOverdue |-> isOverdue(task, now), subtaskProgress |-> subtaskProgress(task)]

\* Mutant of assignedTask: the assignee is recorded as the reporter.
assignedTask_ReporterIsAssignee(u, p, status, assignee) ==
  [newTask(u, p, status) EXCEPT !.assignee = assignee, !.reporter = assignee]

\* assignee: assignee || null (0 is null; any user id is accepted)
assignedTask(u, p, status, assignee) ==
  [newTask(u, p, status) EXCEPT !.assignee = assignee]

Init ==
  /\ projects = [p \in ProjectIds |-> NoProject]
  /\ tasks = [t \in TaskIds |-> NoTask]
  /\ inflight = EmptyBag
  /\ resp = NoResp
  /\ SignedOut /\ pending = {}

\* a handler that answers without going on to a store write
Answer(kind, code, message) ==
  /\ UNCHANGED client
  /\ resp' = Response(kind, code, message)
  /\ UNCHANGED <<projects, tasks, inflight>>

\* a handler that goes on to its next store call, holding r
Proceed(r) ==
  /\ inflight' = inflight (+) SetToBag({r})
  /\ UNCHANGED client
  /\ resp' = NoResp
  /\ UNCHANGED <<projects, tasks>>

\* the last store call of the handler r, and its response
Finish(r, kind, code, message) ==
  /\ UNCHANGED client
  /\ resp' = Response(kind, code, message)
  /\ inflight' = inflight (-) SetToBag({r})

\* the last store call of the handler r, the event it emits to the channel
\* of the project it read, and its response
FinishEmit(r, event, kind, code, message) ==
  /\ UNCHANGED client
  /\ resp' = Emit(event, r.pid, Response(kind, code, message))
  /\ inflight' = inflight (-) SetToBag({r})

\* ------------------------------------------------------ projects.js
\* POST /api/projects
CreateProject(u) ==
  /\ FreshProjects # {}
  /\ LET p == CHOOSE q \in FreshProjects : \A r \in FreshProjects : q <= r
         doc == [st |-> "live", owner |-> u, members |-> <<>>, status |-> "planning"]
     IN /\ projects' = [projects EXCEPT ![p] = preSaveProject(doc, TRUE)]
        /\ UNCHANGED client
        /\ resp' = Response("createProject", 201, "Project created successfully")
  /\ UNCHANGED <<tasks, inflight>>

\* GET /api/projects/:id
GetProject(u, p) ==
  IF ~Live(projects[p]) THEN Answer("getProject", 404, "Project not found")
  ELSE IF ~hasAccess(u, projects[p]) THEN Answer("getProject", 403, "Access denied")
  ELSE Answer("getProject", 200, "")

\* PUT /api/projects/:id, up to project.save()
UpdateProject(u, p, s) ==
  IF ~validProjectStatus(s) THEN Answer("updateProject", 400, "errors")
  ELSE IF ~Live(projects[p]) THEN Answer("updateProject", 404, "Project not found")
  ELSE IF ~canManage(u, projects[p]) THEN Answer("updateProject", 403, "Access denied")
  ELSE Proceed([Req("updateProject.save", 0, p, 0) EXCEPT
                  !.status = IF s = projects[p].status THEN "undefined" ELSE s])

\* project.save() of PUT /api/projects/:id: $set of the modified fields
UpdateProjectSave(r) ==
  /\ r.pc = "updateProject.save"
  /\ IF ~Live(projects[r.pid])
     THEN /\ Finish(r, "updateProject", 500, "Server error")
          /\ UNCHANGED <<projects, tasks>>
     ELSE /\ projects' = [projects EXCEPT ![r.pid].status =
                            IF r.status = "undefined" THEN @ ELSE r.status]
          /\ Finish(r, "updateProject", 200, "Project updated successfully")
          /\ UNCHANGED tasks

\* DELETE /api/projects/:id, up to Task.deleteMany
DeleteProject(u, p) ==
  IF ~Live(projects[p]) THEN Answer("deleteProject", 404, "Project not found")
  ELSE IF ~canDeleteProject(u, projects[p]) THEN Answer("deleteProject", 403, "Only project owner can delete the project")
  ELSE Proceed(Req("deleteProject.deleteMany", 0, p, 0))

\* await Task.deleteMany({ project: req.params.id }); ok = the store call succeeds
DeleteProjectTasks(r, ok) ==
  /\ r.pc = "deleteProject.deleteMany"
  /\ IF ok
     THEN /\ tasks' = [t \in TaskIds |->
                         IF Live(tasks[t]) /\ tasks[t].project = r.pid
                         THEN [tasks[t] EXCEPT !.st = "deleted"] ELSE tasks[t]]
          /\ inflight' = (inflight (-) SetToBag({r}))
                           (+) SetToBag({[r EXCEPT !.pc = "deleteProject.findByIdAndDelete"]})
          /\ UNCHANGED client
          /\ resp' = NoResp
          /\ UNCHANGED projects
     ELSE /\ Finish(r, "deleteProject", 500, "Server error")
          /\ UNCHANGED <<projects, tasks>>

\* await Project.findByIdAndDelete(req.params.id)
DeleteProjectDoc(r, ok) ==
  /\ r.pc = "deleteProject.findByIdAndDelete"
  /\ IF ok
     THEN /\ projects' = [projects EXCEPT ![r.pid].st = "deleted"]
          /\ Finish(r, "deleteProject", 200, "Project and all associated tasks deleted successfully")
          /\ UNCHANGED tasks
     ELSE /\ Finish(r, "deleteProject", 500, "Server error")
          /\ UNCHANGED <<projects, tasks>>

\* POST /api/projects/:id/members, up to project.save()
AddMember(u, p, userId, role) ==
  IF ~validRole(role) THEN Answer("addMember", 400, "errors")
  ELSE IF ~Live(projects[p]) THEN Answer("addMember", 404, "Project not found")
  ELSE IF ~canManage(u, projects[p]) THEN Answer("addMember", 403, "Access denied")
  ELSE IF existingMember(projects[p], userId) THEN Answer("addMember", 400, "User is already a member of this project")
  ELSE Proceed([Req("addMember.save", 0, p, 0) EXCEPT
                  !.userId = userId, !.role = roleOrDefault(role)])

\* A write of the members array increments the document's version (__v): a
\* handler that read the array before it holds a stale version.
Outdated(r, p) ==
  IF r.pc = "removeMember.save" /\ r.pid = p THEN [r EXCEPT !.stale = TRUE] ELSE r

\* the requests in flight once r has written project p's members and answered
AfterMembersWrite(r, p) == BagOfAll(LAMBDA q : Outdated(q, p), inflight (-) SetToBag({r}))

\* project.save() after project.members.push(...): a $push
AddMemberSave(r) ==
  /\ r.pc = "addMember.save"
  /\ IF ~Live(projects[r.pid])
     THEN /\ Finish(r, "addMember", 500, "Server error")
          /\ UNCHANGED <<projects, tasks>>
     ELSE /\ projects' = [projects EXCEPT ![r.pid].members =
                            Append(@, [user |-> r.userId, role |-> r.role])]
          /\ UNCHANGED client
          /\ resp' = Response("addMember", 200, "Member added successfully")
          /\ inflight' = AfterMembersWrite(r, r.pid)
          /\ UNCHANGED tasks

\* Mutant of RemoveMember: the check that refuses the owner is missing.
RemoveMember_NoOwnerCheck(u, p, userId) ==
  IF ~Live(projects[p]) THEN Answer("removeMember", 404, "Project not found")
  ELSE IF ~canManage(u, projects[p]) THEN Answer("removeMember", 403, "Access denied")
  ELSE IF ~existingMember(projects[p], userId) THEN Answer("removeMember", 200, "Member removed successfully")
  ELSE Proceed([Req("removeMember.save", 0, p, 0) EXCEPT !.userId = userId])

\* DELETE /api/projects/:id/members/:userId, up to project.save(); an array
\* the filter leaves as it was read is unmodified, and save() writes nothing
RemoveMember(u, p, userId) ==
  IF ~Live(projects[p]) THEN Answer("removeMember", 404, "Project not found")
  ELSE IF ~canManage(u, projects[p]) THEN Answer("removeMember", 403, "Access denied")
  ELSE IF userId = projects[p].owner THEN Answer("removeMember", 400, "Cannot remove project owner")
  ELSE IF ~existingMember(projects[p], userId) THEN Answer("removeMember", 200, "Member removed successfully")
  ELSE Proceed([Req("removeMember.save", 0, p, 0) EXCEPT !.userId = userId])

\* project.save() after project.members = filter(...): a $set of the whole
\* array, which the store refuses (VersionError) when the array was written
\* since it was read (the array read equals the stored one otherwise)
RemoveMemberSave(r) ==
  /\ r.pc = "removeMember.save"
  /\ IF ~Live(projects[r.pid])
     THEN /\ Finish(r, "removeMember", 500, "Server error")
          /\ UNCHANGED <<projects, tasks>>
     ELSE IF r.stale
     THEN /\ Finish(r, "removeMember", 500, "Server error")
          /\ UNCHANGED <<projects, tasks>>
     ELSE /\ projects' = [projects EXCEPT ![r.pid].members = filterMembers(@, r.userId)]
          /\ UNCHANGED client
          /\ resp' = Response("removeMember", 200, "Member removed successfully")
          /\ inflight' = AfterMembersWrite(r, r.pid)
          /\ UNCHANGED tasks

\* ------------------------------------------------------ tasks routes
\* task.project after populate('project'): null when the project is gone, and
\* task.project.owner then throws (answered 500 by the catch)
ProjectOf(task) == projects[task.project]

\* how many of the requests in flight are in the set S
CountInFlight(S) == BagCardinality([r \in S |-> CopiesIn(r, inflight)])

Creating == CountInFlight({r \in InFlight : r.pc = "createTask.save"})
Commenting(t) == CountInFlight({r \in InFlight : r.pc = "addComment.save" /\ r.tid = t})

\* updatedTask.comments[updatedTask.comments.length - 1] (its author); the
\* schema stores a comment as the author's id here
lastComment(comments) == comments[Len(comments)]

\* GET /api/tasks/:id
GetTask(u, t) ==
  IF ~Live(tasks[t]) THEN Answer("getTask", 404, "Task not found")
  ELSE IF ~Live(ProjectOf(tasks[t])) THEN Answer("getTask", 500, "Server error")
  ELSE IF ~hasAccess(u, ProjectOf(tasks[t])) THEN Answer("getTask", 403, "Access denied")
  ELSE Answer("getTask", 200, "")

\* GET /api/tasks/:id answered at the instant now: res.json(task) serializes
\* the task with its virtuals
GetTaskAt(u, t, now) ==
  IF ~Live(tasks[t]) THEN Answer("getTask", 404, "Task not found")
  ELSE IF ~Live(ProjectOf(tasks[t])) THEN Answer("getTask", 500, "Server error")
  ELSE IF ~hasAccess(u, ProjectOf(tasks[t])) THEN Answer("getTask", 403, "Access denied")
  ELSE /\ UNCHANGED client
       /\ resp' = [Response("getTask", 200, "") EXCEPT !.virtuals = virtualsOf(tasks[t], now)]
       /\ UNCHANGED <<projects, tasks, inflight>>

\* POST /api/tasks, up to task.save()
CreateTaskWith(u, p, status, assignee, hours) ==
  IF ~validTaskStatus(status) THEN Answer("createTask", 400, "errors")
  ELSE IF ~Live(projects[p]) THEN Answer("createTask", 404, "Project not found")
  ELSE IF ~hasAccess(u, projects[p]) THEN Answer("createTask", 403, "Access denied to this project")
  ELSE /\ Creating < Cardinality(FreshTasks)
       /\ Proceed([Req("createTask.save", u, p, 0) EXCEPT
                     !.status = status, !.assignee = assignee,
                     !.estimatedHours = estimateOrNull(hours)])

\* POST /api/tasks with no estimatedHours in the body
CreateTaskFor(u, p, status, assignee) == CreateTaskWith(u, p, status, assignee, NoNumber)

\* POST /api/tasks with no assignee in the body
CreateTask(u, p, status) == CreateTaskFor(u, p, status, 0)

\* task.save() of POST /api/tasks: an insert; the read that follows only
\* fills the payload of the event and of the response
CreateTaskSave(r) ==
  /\ r.pc = "createTask.save"
  /\ IF ~validHours(r.estimatedHours)
     THEN /\ Finish(r, "createTask", 500, "Server error")
          /\ UNCHANGED tasks
     ELSE LET t == CHOOSE q \in FreshTasks : \A x \in FreshTasks : q <= x
          IN /\ tasks' = [tasks EXCEPT ![t] =
                            [assignedTask(r.caller, r.pid, r.status, r.assignee)
                               EXCEPT !.estimatedHours = r.estimatedHours]]
             /\ FinishEmit(r, "task-created", "createTask", 201, "Task created successfully")
  /\ UNCHANGED projects

\* PUT /api/tasks/:id, up to task.save()
UpdateTaskWith(u, t, status, progress, hours) ==
  LET p == tasks[t].project
  IN IF ~validTaskStatus(status) THEN Answer("updateTask", 400, "errors")
     ELSE IF ~Live(tasks[t]) THEN Answer("updateTask", 404, "Task not found")
     ELSE IF ~Live(ProjectOf(tasks[t])) THEN Answer("updateTask", 500, "Server error")
     ELSE IF ~hasAccess(u, ProjectOf(tasks[t])) THEN Answer("updateTask", 403, "Access denied")
     ELSE Proceed([Req("updateTask.save", 0, p, t) EXCEPT
                     !.status = status, !.progress = progress,
                     !.estimatedHours = hours, !.snap = tasks[t]])

\* PUT /api/tasks/:id with no estimatedHours in the body
UpdateTask(u, t, status, progress) == UpdateTaskWith(u, t, status, progress, NoNumber)

\* task.save() of PUT /api/tasks/:id: schema validation, pre('save'), $set
UpdateTaskSave(r) ==
  /\ r.pc = "updateTask.save"
  /\ IF ~validProgress(assignFields(r.snap, r.status, r.progress).progress)
        \/ ~validHours(assignHours(r.snap, r.estimatedHours).estimatedHours)
        \/ ~Live(tasks[r.tid])
     THEN /\ Finish(r, "updateTask", 500, "Server error")
          /\ UNCHANGED <<projects, tasks>>
     ELSE /\ tasks' = [tasks EXCEPT ![r.tid] =
                         applyDelta(@, r.snap,
                                    assignHours(updatedTask(r.snap, r.status, r.progress),
                                                r.estimatedHours))]
          /\ FinishEmit(r, "task-updated", "updateTask", 200, "Task updated successfully")
          /\ UNCHANGED projects

\* DELETE /api/tasks/:id, up to Task.findByIdAndDelete
DeleteTask(u, t) ==
  LET p == tasks[t].project
  IN IF ~Live(tasks[t]) THEN Answer("deleteTask", 404, "Task not found")
     ELSE IF ~Live(ProjectOf(tasks[t])) THEN Answer("deleteTask", 500, "Server error")
     ELSE IF ~canDelete(u, tasks[t], ProjectOf(tasks[t]))
          THEN Answer("deleteTask", 403, "Access denied")
     ELSE Proceed(Req("deleteTask.delete", 0, p, t))

\* await Task.findByIdAndDelete(req.params.id)
DeleteTaskDoc(r) ==
  /\ r.pc = "deleteTask.delete"
  /\ tasks' = [tasks EXCEPT ![r.tid].st = IF @ = "live" THEN "deleted" ELSE @]
  /\ FinishEmit(r, "task-deleted", "deleteTask", 200, "Task deleted successfully")
  /\ UNCHANGED projects

\* POST /api/tasks/:id/comments, up to task.save()
AddComment(u, t) ==
  LET p == tasks[t].project
  IN IF ~Live(tasks[t]) THEN Answer("addComment", 404, "Task not found")
     ELSE IF ~Live(ProjectOf(tasks[t])) THEN Answer("addComment", 500, "Server error")
     ELSE IF ~hasAccess(u, ProjectOf(tasks[t])) THEN Answer("addComment", 403, "Access denied")
     ELSE /\ Len(tasks[t].comments) + Commenting(t) < MaxComments
          /\ Proceed(Req("addComment.save", u, p, t))

\* task.save() after task.comments.push(comment): a $push; status is not
\* modified, so pre('save') leaves the document as it is
AddCommentSave(r) ==
  /\ r.pc = "addComment.save"
  /\ IF ~Live(tasks[r.tid])
     THEN /\ Finish(r, "addComment", 500, "Server error")
          /\ UNCHANGED <<projects, tasks>>
     ELSE /\ tasks' = [tasks EXCEPT ![r.tid].comments = Append(@, r.caller)]
          /\ inflight' = (inflight (-) SetToBag({r}))
                           (+) SetToBag({[r EXCEPT !.pc = "addComment.findById"]})
          /\ UNCHANGED client
          /\ resp' = NoResp
          /\ UNCHANGED projects

\* const updatedTask = await Task.findById(task._id); the last comment of the
\* task read is emitted and returned (a task deleted meanwhile reads as null,
\* and updatedTask.comments throws)
AddCommentReply(r) ==
  /\ r.pc = "addComment.findById"
  /\ IF ~Live(tasks[r.tid])
     THEN Finish(r, "addComment", 500, "Server error")
     ELSE /\ UNCHANGED client
          /\ resp' = [Emit("comment-added", r.pid,
                           Response("addComment", 201, "Comment added successfully"))
                        EXCEPT !.comment = lastComment(tasks[r.tid].comments)]
          /\ inflight' = inflight (-) SetToBag({r})
  /\ UNCHANGED <<projects, tasks>>

\* ------------------------------------------------------ analytics
\* Project.find({ $or: [{ owner }, { 'members.user' }] }).select('_id')
userProjects(u) ==
  {p \in DOMAIN projects : Live(projects[p]) /\ hasAccess(u, projects[p])}

\* the stored tasks that match { project: { $in: projectIds }, isArchived: false }
matchScoped(projectIds) ==
  {t \in TaskIds : Live(tasks[t]) /\ tasks[t].project \in projectIds /\ ~tasks[t].isArchived}

\* { $group: { _id: '$status', count: { $sum: 1 } } } over the scoped tasks
groupByStatus(projectIds) ==
  [s \in TaskStatuses |-> Cardinality({t \in matchScoped(projectIds) : tasks[t].status = s})]

\* Task.find({ project: { $in: projectIds }, updatedAt: { $gte: weekAgo } }):
\* no isArchived filter; every task of the model was written within the week
findRecent(projectIds) ==
  {t \in TaskIds : Live(tasks[t]) /\ tasks[t].project \in projectIds}

\* GET /api/projects/:id/analytics: the project read, the access check and
\* the handler's reads of the Task collection, taken in one step (the route
\* is served with no other request in flight in every specification here)
ProjectAnalytics(u, p) ==
  IF ~Live(projects[p]) THEN Answer("projectAnalytics", 404, "Project not found")
  ELSE IF ~hasAccess(u, projects[p]) THEN Answer("projectAnalytics", 403, "Access denied")
  ELSE /\ UNCHANGED client
       /\ resp' = [Response("projectAnalytics", 200, "") EXCEPT
                     !.body = [statusStats |-> groupByStatus({p}),
                               totalTasks |-> Cardinality(matchScoped({p})),
                               tasks |-> findRecent({p})]]
       /\ UNCHANGED <<projects, tasks, inflight>>

\* r replaced by the same handler at its next store call
Advance(r, next) ==
  /\ inflight' = (inflight (-) SetToBag({r})) (+) SetToBag({next})
  /\ UNCHANGED client
  /\ resp' = NoResp
  /\ UNCHANGED <<projects, tasks>>

\* GET /api/tasks/analytics/dashboard, up to the statusStats aggregate
Dashboard(u) ==
  Proceed([Req("dashboard.statusStats", u, 0, 0) EXCEPT !.projectIds = userProjects(u)])

\* await Task.aggregate([...]) for statusStats
DashboardStatusStats(r) ==
  /\ r.pc = "dashboard.statusStats"
  /\ Advance(r, [r EXCEPT !.pc = "dashboard.recentActivity",
                          !.statusStats = groupByStatus(r.projectIds)])

\* the priorityStats, assigneeStats and overdueTasks reads, of which the model
\* keeps nothing, and await Task.find(...) for recentActivity
DashboardRecentActivity(r) ==
  /\ r.pc = "dashboard.recentActivity"
  /\ Advance(r, [r EXCEPT !.pc = "dashboard.countDocuments",
                          !.recentActivity = findRecent(r.projectIds)])

\* totalTasks: await Task.countDocuments(...) inside res.json({...})
DashboardTotal(r) ==
  /\ r.pc = "dashboard.countDocuments"
  /\ UNCHANGED client
  /\ resp' = [Response("dashboard", 200, "") EXCEPT
                !.body = [statusStats |-> r.statusStats,
                          totalTasks |-> Cardinality(matchScoped(r.projectIds)),
                          tasks |-> r.recentActivity]]
  /\ inflight' = inflight (-) SetToBag({r})
  /\ UNCHANGED <<projects, tasks>>

\* users.js: the stored tasks that match { assignee: req.user._id, isArchived: false }
matchAssigned(u) ==
  {t \in TaskIds : Live(tasks[t]) /\ tasks[t].assignee = u /\ ~tasks[t].isArchived}

\* GET /api/users/me/stats: the taskStats aggregate ($group _id: null, total)
MyStats(u) ==
  Proceed([Req("myStats.recentTasks", u, 0, 0) EXCEPT
             !.statusStats = [s \in TaskStatuses |->
                                Cardinality({t \in matchAssigned(u) : tasks[t].status = s})]])

RECURSIVE totalOf(_, _)
\* total: { $sum: 1 } of the group, from the tasks counted by status
totalOf(stats, S) ==
  IF S = {} THEN 0
  ELSE LET s == CHOOSE x \in S : TRUE IN stats[s] + totalOf(stats, S \ {s})

\* the project counts, then Task.find({ assignee, isArchived: false }) for
\* recentTasks, the priorityStats and weeklyStats aggregates, and res.json
MyStatsRecent(r) ==
  /\ r.pc = "myStats.recentTasks"
  /\ UNCHANGED client
  /\ resp' = [Response("myStats", 200, "") EXCEPT
                !.body = [statusStats |-> r.statusStats,
                          totalTasks |-> totalOf(r.statusStats, TaskStatuses),
                          tasks |-> matchAssigned(r.caller)]]
  /\ inflight' = inflight (-) SetToBag({r})
  /\ UNCHANGED <<projects, tasks>>

\* ------------------------------------------------------ GET /api/tasks
\* the filter object as the handler builds it: status and project from the
\* query (project 0: none supplied), then filter.project = { $in: projectIds }
listFilter(status, project, projectIds) ==
  LET fromQuery == [isArchived |-> FALSE, status |-> status,
                    project |-> IF project = 0 THEN DOMAIN projects ELSE {project}]
  IN [fromQuery EXCEPT !.project = projectIds]

\* the stored tasks that match the filter object
matchFilter(filter) ==
  {t \in DOMAIN tasks : /\ Live(tasks[t])
                        /\ tasks[t].isArchived = filter.isArchived
                        /\ filter.status \in {"undefined", tasks[t].status}
                        /\ tasks[t].project \in filter.project}

\* GET /api/tasks?status&project (first page, which holds every match), up to
\* Task.find
GetTasks(u, status, project) ==
  IF ~validTaskStatus(status) THEN Answer("getTasks", 400, "errors")
  ELSE Proceed([Req("getTasks.find", u, project, 0) EXCEPT
                  !.status = status,
                  !.filter = listFilter(status, project, userProjects(u))])

\* const tasks = await Task.find(filter)...
GetTasksFind(r) ==
  /\ r.pc = "getTasks.find"
  /\ Advance(r, [r EXCEPT !.pc = "getTasks.countDocuments", !.found = matchFilter(r.filter)])

\* const total = await Task.countDocuments(filter); res.json({ tasks, pagination })
GetTasksCount(r) ==
  /\ r.pc = "getTasks.countDocuments"
  /\ UNCHANGED client
  /\ resp' = [Response("getTasks", 200, "") EXCEPT
                !.body = [NoBody EXCEPT !.tasks = r.found,
                                        !.totalTasks = Cardinality(matchFilter(r.filter))]]
  /\ inflight' = inflight (-) SetToBag({r})
  /\ UNCHANGED <<projects, tasks>>

\* ------------------------------------------------------ specifications
\* A request is taken while fewer than MaxInFlight are being served
\* (Concurrent), or only when none is (Serial: one request at a time).
Concurrent == BagCardinality(inflight) < MaxInFlight
Serial == inflight = EmptyBag

\* The project routes, served one at a time.
MemberRequests ==
  \/ \E u \in Users : CreateProject(u)
  \/ \E u \in Users, p \in ProjectIds : GetProject(u, p)
  \/ \E u \in Users, p \in ProjectIds, s \in ProjectStatusInputs : UpdateProject(u, p, s)
  \/ \E u \in Users, p \in ProjectIds, userId \in Users, role \in RoleInputs :
       AddMember(u, p, userId, role)
  \/ \E u \in Users, p \in ProjectIds, userId \in Users : RemoveMember(u, p, userId)
  \/ \E u \in Users, p \in ProjectIds : ProjectAnalytics(u, p)

MemberSteps ==
  \E r \in InFlight : UpdateProjectSave(r) \/ AddMemberSave(r) \/ RemoveMemberSave(r)

NextMembers == (Serial /\ MemberRequests) \/ MemberSteps

SpecMembers == Init /\ [][NextMembers]_vars

\* Every project and task route, served one at a time, in a project whose
\* members come and go (added with the default role).
AccessRequests ==
  \/ \E u \in Users : CreateProject(u)
  \/ \E u \in Users, p \in ProjectIds : GetProject(u, p)
  \/ \E u \in Users, p \in ProjectIds : ProjectAnalytics(u, p)
  \/ \E u \in Users, p \in ProjectIds : UpdateProject(u, p, "active")
  \/ \E u \in Users, p \in ProjectIds : DeleteProject(u, p)
  \/ \E u \in Users, p \in ProjectIds, userId \in Users : AddMember(u, p, userId, "undefined")
  \/ \E u \in Users, p \in ProjectIds, userId \in Users : RemoveMember(u, p, userId)
  \/ \E u \in Users, t \in TaskIds : GetTask(u, t)
  \/ \E u \in Users, p \in ProjectIds : CreateTask(u, p, "undefined")
  \/ \E u \in Users, t \in TaskIds : UpdateTask(u, t, "completed", -1)
  \/ \E u \in Users, t \in TaskIds : DeleteTask(u, t)
  \/ \E u \in Users, t \in TaskIds : AddComment(u, t)

AccessSteps ==
  \E r \in InFlight :
    \/ UpdateProjectSave(r)
    \/ DeleteProjectTasks(r, TRUE)
    \/ DeleteProjectDoc(r, TRUE)
    \/ AddMemberSave(r)
    \/ RemoveMemberSave(r)
    \/ CreateTaskSave(r)
    \/ UpdateTaskSave(r)
    \/ DeleteTaskDoc(r)
    \/ AddCommentSave(r)
    \/ AddCommentReply(r)

NextAccess == (Serial /\ AccessRequests) \/ AccessSteps

SpecAccess == Init /\ [][NextAccess]_vars

\* The task lifecycle: tasks created and updated with every status and
\* progress input, served one at a time.
TaskRequests ==
  \/ \E u \in Users : CreateProject(u)
  \/ \E u \in Users, p \in ProjectIds, status \in StatusInputs : CreateTask(u, p, status)
  \/ \E u \in Users, t \in TaskIds, status \in StatusInputs, progress \in ProgressInputs :
       UpdateTask(u, t, status, progress)

TaskSteps == \E r \in InFlight : CreateTaskSave(r) \/ UpdateTaskSave(r)

NextTasks == (Serial /\ TaskRequests) \/ TaskSteps

SpecTasks == Init /\ [][NextTasks]_vars

\* The cascading delete: project deletion, either of whose store calls may
\* fail, served concurrently with task creation and reads.
CascadeRequests ==
  \/ \E u \in Users : CreateProject(u)
  \/ \E u \in Users, p \in ProjectIds, userId \in Users : AddMember(u, p, userId, "admin")
  \/ \E u \in Users, p \in ProjectIds : DeleteProject(u, p)
  \/ \E u \in Users, p \in ProjectIds : CreateTask(u, p, "undefined")
  \/ \E u \in Users, t \in TaskIds : GetTask(u, t)

CascadeSteps ==
  \E r \in InFlight :
    \/ AddMemberSave(r)
    \/ \E ok \in BOOLEAN : DeleteProjectTasks(r, ok)
    \/ \E ok \in BOOLEAN : DeleteProjectDoc(r, ok)
    \/ CreateTaskSave(r)

NextCascade == (Concurrent /\ CascadeRequests) \/ CascadeSteps

SpecCascade == Init /\ [][NextCascade]_vars

\* The membership routes served concurrently: a handler may read the project
\* while another is between its read and its save.
RaceRequests ==
  \/ \E u \in Users : CreateProject(u)
  \/ \E u \in Users, p \in ProjectIds, userId \in Users : AddMember(u, p, userId, "undefined")
  \/ \E u \in Users, p \in ProjectIds, userId \in Users : RemoveMember(u, p, userId)

RaceSteps == \E r \in InFlight : AddMemberSave(r) \/ RemoveMemberSave(r)

NextRace == (Concurrent /\ RaceRequests) \/ RaceSteps

SpecRace == Init /\ [][NextRace]_vars

\* Task deletion: tasks created by the owner and by admin members, assigned
\* to any user, and delete requests by every user, served one at a time.
RemovalRequests ==
  \/ \E u \in Users : CreateProject(u)
  \/ \E u \in Users, p \in ProjectIds, userId \in Users : AddMember(u, p, userId, "admin")
  \/ \E u \in Users, p \in ProjectIds, assignee \in Users :
       CreateTaskFor(u, p, "undefined", assignee)
  \/ \E u \in Users, t \in TaskIds : DeleteTask(u, t)

RemovalSteps == \E r \in InFlight : AddMemberSave(r) \/ CreateTaskSave(r) \/ DeleteTaskDoc(r)

NextRemoval == (Serial /\ RemovalRequests) \/ RemovalSteps

SpecRemoval == Init /\ [][NextRemoval]_vars

\* Create, update and comment: tasks created and updated with every status
\* and progress input and commented, served one at a time.
CompletionRequests ==
  \/ \E u \in Users : CreateProject(u)
  \/ \E u \in Users, p \in ProjectIds, status \in StatusInputs : CreateTask(u, p, status)
  \/ \E u \in Users, t \in TaskIds, status \in StatusInputs, progress \in ProgressInputs :
       UpdateTask(u, t, status, progress)
  \/ \E u \in Users, t \in TaskIds : AddComment(u, t)

CompletionSteps ==
  \E r \in InFlight :
    CreateTaskSave(r) \/ UpdateTaskSave(r) \/ AddCommentSave(r) \/ AddCommentReply(r)

NextCompletion == (Serial /\ CompletionRequests) \/ CompletionSteps

SpecCompletion == Init /\ [][NextCompletion]_vars

\* The dashboard served concurrently with task creation and deletion.
DashboardRequests ==
  \/ \E u \in Users : CreateProject(u)
  \/ \E u \in Users, p \in ProjectIds : CreateTask(u, p, "undefined")
  \/ \E u \in Users, t \in TaskIds : DeleteTask(u, t)
  \/ \E u \in Users : Dashboard(u)

DashboardSteps ==
  \E r \in InFlight :
    \/ CreateTaskSave(r)
    \/ DeleteTaskDoc(r)
    \/ DashboardStatusStats(r)
    \/ DashboardRecentActivity(r)
    \/ DashboardTotal(r)

NextDashboard == (Concurrent /\ DashboardRequests) \/ DashboardSteps

SpecDashboard == Init /\ [][NextDashboard]_vars

\* The analytics routes, served one at a time, over tasks assigned to any
\* user in a project whose members are added by its managers.
AnalyticsRequests ==
  \/ \E u \in Users : CreateProject(u)
  \/ \E u \in Users, p \in ProjectIds, userId \in Users : AddMember(u, p, userId, "undefined")
  \/ \E u \in Users, p \in ProjectIds, status \in {"undefined", "completed"}, assignee \in Users :
       CreateTaskFor(u, p, status, assignee)
  \/ \E u \in Users : Dashboard(u)
  \/ \E u \in Users : MyStats(u)
  \/ \E u \in Users, p \in ProjectIds : ProjectAnalytics(u, p)

AnalyticsSteps ==
  \E r \in InFlight :
    \/ AddMemberSave(r)
    \/ CreateTaskSave(r)
    \/ DashboardStatusStats(r)
    \/ DashboardRecentActivity(r)
    \/ DashboardTotal(r)
    \/ MyStatsRecent(r)

NextAnalytics == (Serial /\ AnalyticsRequests) \/ AnalyticsSteps

SpecAnalytics == Init /\ [][NextAnalytics]_vars

\* The task list as a function of the store: the store is any of the stores
\* that project and task creation leave with NumListProjects projects and
\* NumListTasks tasks, and list requests are served one at a time.
ListProjects ==
  {[st |-> "live", owner |-> u, members |-> <<[user |-> u, role |-> "owner"]>>,
    status |-> "planning"] : u \in Users}

InitList ==
  /\ projects \in [1..NumListProjects -> ListProjects]
  /\ tasks \in [1..NumListTasks ->
                  UNION {{newTask(projects[p].owner, p, status) :
                            status \in {"undefined", "completed"}} :
                         p \in 1..NumListProjects}]
  /\ inflight = EmptyBag
  /\ resp = NoResp
  /\ SignedOut /\ pending = {}

ListRequests ==
  \E u \in Users, status \in {"undefined", "todo", "bogus"}, project \in 0..NumListProjects :
    GetTasks(u, status, project)

ListSteps == \E r \in InFlight : GetTasksFind(r) \/ GetTasksCount(r)

NextList == (Serial /\ ListRequests) \/ ListSteps

SpecList == InitList /\ [][NextList]_vars

\* Comments by the owner and by members on one task, served concurrently.
CommentRequests ==
  \/ \E u \in Users : CreateProject(u)
  \/ \E u \in Users, p \in ProjectIds, userId \in Users : AddMember(u, p, userId, "undefined")
  \/ \E u \in Users, p \in ProjectIds : CreateTask(u, p, "undefined")
  \/ \E u \in Users, t \in TaskIds : AddComment(u, t)

CommentSteps ==
  \E r \in InFlight :
    AddMemberSave(r) \/ CreateTaskSave(r) \/ AddCommentSave(r) \/ AddCommentReply(r)

NextComments == (Concurrent /\ CommentRequests) \/ CommentSteps

SpecComments == Init /\ [][NextComments]_vars

\* Tasks created by the owner and by members, assigned to any user, then
\* updated and commented by them, served concurrently.
ProvenanceRequests ==
  \/ \E u \in Users : CreateProject(u)
  \/ \E u \in Users, p \in ProjectIds, userId \in Users : AddMember(u, p, userId, "undefined")
  \/ \E u \in Users, p \in ProjectIds, assignee \in Users :
       CreateTaskFor(u, p, "undefined", assignee)
  \/ \E u \in Users, t \in TaskIds : UpdateTask(u, t, "completed", 40)
  \/ \E u \in Users, t \in TaskIds : AddComment(u, t)

ProvenanceSteps ==
  \E r \in InFlight :
    \/ AddMemberSave(r)
    \/ CreateTaskSave(r)
    \/ UpdateTaskSave(r)
    \/ AddCommentSave(r)
    \/ AddCommentReply(r)

NextProvenance == (Concurrent /\ ProvenanceRequests) \/ ProvenanceSteps

SpecProvenance == Init /\ [][NextProvenance]_vars

\* The virtuals of a task as a function of the task and of the clock: the
\* store holds one project and tasks created in it with any status and any
\* due date, set or not, and every user reads them at every instant.
InitOverdue ==
  /\ projects \in [ProjectIds -> ListProjects]
  /\ tasks \in [TaskIds ->
                  UNION {{[newTask(projects[p].owner, p, status) EXCEPT !.dueDate = dueDate] :
                            status \in TaskStatuses, dueDate \in {NoDate} \cup 1..MaxTime} :
                         p \in ProjectIds}]
  /\ inflight = EmptyBag
  /\ resp = NoResp
  /\ SignedOut /\ pending = {}

NextOverdue == \E u \in Users, t \in TaskIds, now \in 1..MaxTime : GetTaskAt(u, t, now)

SpecOverdue == InitOverdue /\ [][NextOverdue]_vars

\* subtaskProgress as a function of the subtasks: the store holds a task with
\* any number of subtasks up to MaxSubtasks, any number of them completed.
subtasksOf(completed, total) == [k \in 1..total |-> [completed |-> k <= completed]]

InitSubtasks ==
  /\ projects \in [ProjectIds -> ListProjects]
  /\ tasks \in [TaskIds ->
                  UNION {{[newTask(projects[p].owner, p, "undefined")
                             EXCEPT !.subtasks = subtasksOf(completed, total)] :
                            completed \in 0..total, p \in ProjectIds} :
                         total \in 0..MaxSubtasks}]
  /\ inflight = EmptyBag
  /\ resp = NoResp
  /\ SignedOut /\ pending = {}

NextSubtasks == \E u \in Users, t \in TaskIds : GetTaskAt(u, t, 1)

SpecSubtasks == InitSubtasks /\ [][NextSubtasks]_vars

\* Create and update with numbers of every kind: tasks created with any
\* estimatedHours and updated with any progress and estimatedHours, below, at
\* and above the ends of the ranges, served one at a time.
RangeRequests ==
  \/ \E u \in Users : CreateProject(u)
  \/ \E u \in Users, p \in ProjectIds, status \in {"undefined", "completed"},
        hours \in HoursInputs :
       CreateTaskWith(u, p, status, 0, hours)
  \/ \E u \in Users, t \in TaskIds, status \in {"undefined", "review", "completed"},
        progress \in RangeProgressInputs, hours \in HoursInputs :
       UpdateTaskWith(u, t, status, progress, hours)

RangeSteps == \E r \in InFlight : CreateTaskSave(r) \/ UpdateTaskSave(r)

NextRange == (Serial /\ RangeRequests) \/ RangeSteps

SpecRange == Init /\ [][NextRange]_vars

\* Updates of a task served concurrently: a handler may read the task while
\* another is between its read and its save.
UpdateStatusInputs == {"undefined", "review", "completed"}
UpdateProgressInputs == {-1, 40}

UpdatesRequests ==
  \/ \E u \in Users : CreateProject(u)
  \/ \E u \in Users, p \in ProjectIds : CreateTask(u, p, "undefined")
  \/ \E u \in Users, t \in TaskIds, status \in UpdateStatusInputs,
        progress \in UpdateProgressInputs :
       UpdateTask(u, t, status, progress)

UpdatesSteps == \E r \in InFlight : CreateTaskSave(r) \/ UpdateTaskSave(r)

NextUpdates == (Concurrent /\ UpdatesRequests) \/ UpdatesSteps

SpecUpdates == Init /\ [][NextUpdates]_vars

\* ------------------------------------------------ front end: AuthService
\* HTTP requests the service has sent and not yet heard of, at most
MaxPending == 2

\* the token the server issues to the user u
TokenOf(u) == u

\* a request of the service: the route, and the user it is about: the account
\* of a login or a register, the owner of the token sent with a verify-token
\* or a profile update (NoUser when no token was stored)
Request(kind, user) == [kind |-> kind, user |-> user]

\* this.http.post / put: the request leaves, the response comes later
Send(q) ==
  /\ Cardinality(pending) < MaxPending
  /\ q \notin pending
  /\ pending' = pending \cup {q}

\* private setCurrentUser(user)
setCurrentUser(user) == currentUser' = user /\ isAuthenticated' = TRUE

\* private setAuthData(token, user)
setAuthData(tok, user) == token' = tok /\ setCurrentUser(user)

\* logout(): the token is removed and both subjects are reset
logout == token' = NoToken /\ currentUser' = NoUser /\ isAuthenticated' = FALSE

\* The state after the constructor ran in a browser that keeps any token or
\* none: initializeAuth() sends verifyToken() if a token is stored.
Constructed ==
  /\ token \in {NoToken} \cup {TokenOf(u) : u \in Users}
  /\ currentUser = NoUser
  /\ isAuthenticated = FALSE
  /\ pending = IF token = NoToken THEN {} ELSE {Request("verifyToken", token)}

InitAuth ==
  /\ projects = [p \in ProjectIds |-> NoProject]
  /\ tasks = [t \in TaskIds |-> NoTask]
  /\ inflight = EmptyBag
  /\ resp = NoResp
  /\ Constructed

\* login(credentials), subscribed to
Login(u) == Send(Request("login", u)) /\ UNCHANGED <<server, token, currentUser, isAuthenticated>>

\* register(userData), subscribed to
Register(u) ==
  Send(Request("register", u)) /\ UNCHANGED <<server, token, currentUser, isAuthenticated>>

\* updateProfile(profileData), subscribed to; the request carries the token
\* stored when it leaves
UpdateProfile ==
  Send(Request("updateProfile", token)) /\ UNCHANGED <<server, token, currentUser, isAuthenticated>>

\* logout(), called by the user
Logout == logout /\ UNCHANGED <<server, pending>>

\* the response to login or register: tap(response => setAuthData(...)); an
\* error response leaves the service as it is
AuthResponse(q, ok) ==
  /\ q \in pending /\ q.kind \in {"login", "register"}
  /\ pending' = pending \ {q}
  /\ IF ok THEN setAuthData(TokenOf(q.user), q.user)
     ELSE UNCHANGED <<token, currentUser, isAuthenticated>>
  /\ UNCHANGED server

\* the response to the constructor's verifyToken(): next sets the current
\* user, error logs out; the server accepts only a token it issued
VerifyTokenResponse(q, ok) ==
  /\ q \in pending /\ q.kind = "verifyToken"
  /\ ok => q.user # NoUser
  /\ pending' = pending \ {q}
  /\ IF ok THEN setCurrentUser(q.user) /\ UNCHANGED token
     ELSE logout
  /\ UNCHANGED server

\* the response to updateProfile(): tap(response => setCurrentUser(...)); an
\* error response leaves the service as it is
UpdateProfileResponse(q, ok) ==
  /\ q \in pending /\ q.kind = "updateProfile"
  /\ ok => q.user # NoUser
  /\ pending' = pending \ {q}
  /\ IF ok THEN setCurrentUser(q.user) /\ UNCHANGED token
     ELSE UNCHANGED <<token, currentUser, isAuthenticated>>
  /\ UNCHANGED server

NextAuth ==
  \/ \E u \in Users : Login(u)
  \/ \E u \in Users : Register(u)
  \/ UpdateProfile
  \/ Logout
  \/ \E q \in pending, ok \in BOOLEAN : AuthResponse(q, ok)
  \/ \E q \in pending, ok \in BOOLEAN : VerifyTokenResponse(q, ok)
  \/ \E q \in pending, ok \in BOOLEAN : UpdateProfileResponse(q, ok)

SpecAuth == InitAuth /\ [][NextAuth]_vars

\* ================================================================ claims
\* The step UpdateTaskSave(r) wrote the task (answered 200).
Updated(r) == UpdateTaskSave(r) /\ resp'.code = 200

\* The task the step CreateTaskSave(r) inserted.
Inserted(t) == tasks[t].st = "fresh" /\ tasks'[t].st = "live"

CompletedAndFull(task) ==
  task.status = "completed" /\ task.completedAt # "undefined" /\ task.progress = 100

\* C1 as stated: every create or update that sets status to 'completed'
\* leaves the stored task with completedAt set and progress = 100, whatever
\* progress the request supplies and also when the task was completed already.
C1_CompletedForcesProgress ==
  [][\A r \in InFlight :
       /\ (Updated(r) /\ r.status = "completed") => CompletedAndFull(tasks'[r.tid])
       /\ (CreateTaskSave(r) /\ r.status = "completed")
            => \A t \in TaskIds : Inserted(t) => CompletedAndFull(tasks'[t])]_vars

\* C1 amended: a create, or an update of a task that is not completed (and
\* whose completedAt is unset), that sets status to 'completed' leaves the
\* stored task completed with completedAt set and progress = 100, whatever
\* progress the request supplies; an update that names 'completed' on a task
\* already completed keeps completedAt and stores the progress it supplies.
C1_TransitionForcesProgress ==
  [][\A r \in InFlight :
       /\ (Updated(r) /\ r.status = "completed" /\ tasks[r.tid].status # "completed"
             /\ tasks[r.tid].completedAt = "undefined")
            => CompletedAndFull(tasks'[r.tid])
       /\ (Updated(r) /\ r.status = "completed" /\ tasks[r.tid].status = "completed")
            => /\ tasks'[r.tid].status = "completed"
               /\ tasks'[r.tid].completedAt = tasks[r.tid].completedAt
               /\ tasks'[r.tid].completedAt # "undefined"
               /\ tasks'[r.tid].progress =
                    IF r.progress = -1 THEN tasks[r.tid].progress ELSE r.progress
       /\ (CreateTaskSave(r) /\ r.status = "completed")
            => \A t \in TaskIds : Inserted(t) => CompletedAndFull(tasks'[t])]_vars

\* C1 witness: an update was just answered 200 and left a completed task, its
\* completedAt set, with progress 40: the task was completed (which forced
\* its progress to 100) and an update then supplied the progress.
C1_Witness ==
  /\ resp.kind = "updateTask" /\ resp.code = 200
  /\ \E t \in TaskIds : /\ Live(tasks[t]) /\ tasks[t].status = "completed"
                        /\ tasks[t].completedAt # "undefined" /\ tasks[t].progress = 40

\* C2: an update that moves a completed task to any other status leaves the
\* stored task with that status and completedAt cleared.
C2_LeavingCompletedClears ==
  [][\A r \in InFlight :
       (Updated(r) /\ tasks[r.tid].status = "completed"
          /\ r.status \in TaskStatuses \ {"completed"})
         => /\ tasks'[r.tid].status = r.status
            /\ tasks'[r.tid].completedAt = "undefined"]_vars

\* C2 witness: an update was just answered 200 and the task it left is not
\* completed, has no completedAt and still has the progress completion forced.
C2_Witness ==
  /\ resp.kind = "updateTask" /\ resp.code = 200
  /\ \E t \in TaskIds : /\ Live(tasks[t]) /\ tasks[t].status = "review"
                        /\ tasks[t].completedAt = "undefined" /\ tasks[t].progress = 100
  /\ \A t \in TaskIds : Live(tasks[t]) => tasks[t].status # "completed"

\* ---- what the claims say of a project, in the claims' own terms
\* the positions of user u in the members list
EntriesOf(u, project) == {k \in DOMAIN project.members : project.members[k].user = u}

IsMember(u, project) == EntriesOf(u, project) # {}

\* owner, or a member whose current role is 'admin'
MayManage(u, project) ==
  \/ u = project.owner
  \/ \E k \in EntriesOf(u, project) : project.members[k].role = "admin"

\* the step answered code and neither wrote the store nor went on to a write
Refused(code) == resp'.code = code /\ projects' = projects /\ tasks' = tasks /\ inflight' = inflight

OwnerExactlyOnce(project) ==
  /\ Cardinality(EntriesOf(project.owner, project)) = 1
  /\ \A k \in DOMAIN project.members :
       project.members[k].role = "owner" <=> project.members[k].user = project.owner

C4_NonMemberDenied ==
  [][/\ \A u \in Users, p \in ProjectIds :
          (Live(projects[p]) /\ ~IsMember(u, projects[p]) /\ u # projects[p].owner)
            => /\ GetProject(u, p) => Refused(403)
               /\ ProjectAnalytics(u, p) => Refused(403)
               /\ DeleteProject(u, p) => Refused(403)
               /\ CreateTask(u, p, "undefined") => Refused(403)
               /\ UpdateProject(u, p, "active") => Refused(403)
               /\ (\E userId \in Users : AddMember(u, p, userId, "undefined")) => Refused(403)
               /\ (\E userId \in Users : RemoveMember(u, p, userId)) => Refused(403)
     /\ \A u \in Users, t \in TaskIds :
          (Live(tasks[t]) /\ Live(ProjectOf(tasks[t]))
             /\ ~IsMember(u, ProjectOf(tasks[t])) /\ u # ProjectOf(tasks[t]).owner)
            => /\ GetTask(u, t) => Refused(403)
               /\ UpdateTask(u, t, "completed", -1) => Refused(403)
               /\ DeleteTask(u, t) => Refused(403)
               /\ AddComment(u, t) => Refused(403)]_vars

\* C5 as stated: project deletion is atomic. Once no delete of the project is
\* between its two store calls, tasks of the project are deleted only if the
\* project is.
C5_DeleteProjectAtomic ==
  \A p \in ProjectIds :
    (/\ Live(projects[p])
     /\ \A r \in InFlight : ~(r.pc = "deleteProject.findByIdAndDelete" /\ r.pid = p))
      => \A t \in TaskIds : tasks[t].project = p => tasks[t].st # "deleted"

\* C6 as stated: once a project delete has returned success (the project
\* document is deleted), no stored task references the project.
C6_NoTaskOfDeletedProject ==
  \A t \in TaskIds : Live(tasks[t]) => projects[tasks[t].project].st # "deleted"

\* C7: a project delete request by anyone but the owner (admin members
\* included) is answered 403 and deletes nothing; one that goes on to delete
\* comes from the owner.
C7_OnlyOwnerDeletes ==
  [][\A u \in Users, p \in ProjectIds :
       (DeleteProject(u, p) /\ Live(projects[p]))
         => IF u = projects[p].owner
            THEN resp'.code # 403
            ELSE /\ Refused(403)
                 /\ resp'.message = "Only project owner can delete the project"]_vars

\* C7 witness: a delete was just answered 403 in a project all of whose
\* users other than the owner are admin members.
C7_Witness ==
  /\ resp.kind = "deleteProject" /\ resp.code = 403
  /\ \E p \in ProjectIds :
       /\ Live(projects[p])
       /\ \A u \in Users \ {projects[p].owner} : MayManage(u, projects[p])
       /\ \A t \in TaskIds : Live(tasks[t]) /\ tasks[t].project = p

\* C8: an update, addMember or removeMember request (with a body that passes
\* validation) by a caller who is neither the owner nor an admin member is
\* answered 403 and leaves the project unchanged; with a body that fails
\* validation it is answered 400 and leaves the project unchanged.
C8_OnlyManagersChange ==
  [][\A u \in Users, p \in ProjectIds :
       (Live(projects[p]) /\ ~MayManage(u, projects[p]))
         => /\ \A s \in ProjectStatusInputs :
                 UpdateProject(u, p, s) => Refused(IF s = "bogus" THEN 400 ELSE 403)
            /\ \A userId \in Users, role \in RoleInputs :
                 AddMember(u, p, userId, role) => Refused(IF role = "owner" THEN 400 ELSE 403)
            /\ \A userId \in Users : RemoveMember(u, p, userId) => Refused(403)]_vars

\* C8 witness: a manage request was just answered 403 in a project whose
\* users are the owner, a member and a viewer.
C8_Witness ==
  /\ resp.kind \in {"updateProject", "addMember", "removeMember"} /\ resp.code = 403
  /\ \E p \in ProjectIds :
       /\ Live(projects[p])
       /\ \E k \in DOMAIN projects[p].members : projects[p].members[k].role = "member"
       /\ \E k \in DOMAIN projects[p].members : projects[p].members[k].role = "viewer"
       /\ \A u \in Users \ {projects[p].owner} : ~MayManage(u, projects[p])

\* C9: removeMember of the project's owner fails for every caller, answered
\* 400 'Cannot remove project owner' when the caller may manage the project
\* and 403 otherwise, and leaves the members list unchanged.
C9_OwnerNeverRemoved ==
  [][\A u \in Users, p \in ProjectIds :
       (Live(projects[p]) /\ RemoveMember(u, p, projects[p].owner))
         => /\ Refused(IF MayManage(u, projects[p]) THEN 400 ELSE 403)
            /\ MayManage(u, projects[p]) => resp'.message = "Cannot remove project owner"]_vars

\* C9 witness: the removal of the owner was just refused in a project that
\* has an admin member.
C9_Witness ==
  /\ resp.kind = "removeMember" /\ resp.message = "Cannot remove project owner"
  /\ \E p \in ProjectIds :
       /\ Live(projects[p])
       /\ \E u \in Users \ {projects[p].owner} : MayManage(u, projects[p])

C11_MembersUnique ==
  \A p \in ProjectIds : \A u \in Users :
    Live(projects[p]) => Cardinality(EntriesOf(u, projects[p])) <= 1

\* C12: a delete request for a stored task (of a stored project) removes the
\* task if the caller is the project's owner or the task's reporter, answered
\* 200; from any other caller, admin members and the assignee included, it is
\* answered 403 and the task remains stored.
C12_OwnerOrReporterDeletes ==
  [][/\ \A u \in Users, t \in TaskIds :
          (Live(tasks[t]) /\ Live(ProjectOf(tasks[t])) /\ DeleteTask(u, t))
            => IF u = ProjectOf(tasks[t]).owner \/ u = tasks[t].reporter
               THEN /\ resp' = NoResp /\ tasks' = tasks
                    /\ \E r \in BagToSet(inflight') : r.pc = "deleteTask.delete" /\ r.tid = t
               ELSE Refused(403)
     /\ \A r \in InFlight :
          (DeleteTaskDoc(r) /\ Live(tasks[r.tid]))
            => resp'.code = 200 /\ tasks'[r.tid].st = "deleted"]_vars

\* C12 witness: a delete was just answered 403 in a project all of whose
\* users but the owner are admin members; the task, reported by the owner, is
\* still stored and is assigned to one of the admins.
C12_Witness ==
  /\ resp.kind = "deleteTask" /\ resp.code = 403
  /\ \E t \in TaskIds :
       /\ Live(tasks[t]) /\ Live(ProjectOf(tasks[t]))
       /\ tasks[t].reporter = ProjectOf(tasks[t]).owner
       /\ tasks[t].assignee \in Users \ {ProjectOf(tasks[t]).owner}
       /\ \A u \in Users \ {ProjectOf(tasks[t]).owner} : MayManage(u, ProjectOf(tasks[t]))

\* ---- lifecycle events
\* the event each task route emits when it succeeds
EventOf(kind) ==
  CASE kind = "createTask" -> "task-created"
    [] kind = "updateTask" -> "task-updated"
    [] kind = "deleteTask" -> "task-deleted"
    [] kind = "addComment" -> "comment-added"
    [] OTHER -> "none"

\* the event that describes the change of a stored task from old to new
MutationEvent(old, new) ==
  IF old.st = "fresh" THEN "task-created"
  ELSE IF new.st = "deleted" THEN "task-deleted"
  ELSE IF new.comments # old.comments THEN "comment-added"
  ELSE "task-updated"

\* a step answered 400, 403 or 404 and emitted an event
RejectionEmits == resp'.code \in {400, 403, 404} /\ resp'.event # "none"

\* a task route succeeded without emitting its event to its project's channel
SuccessIsSilent ==
  /\ EventOf(resp'.kind) # "none" /\ resp'.code \in {200, 201}
  /\ \/ resp'.event # EventOf(resp'.kind)
     \/ \E r \in InFlight : /\ CopiesIn(r, inflight') < CopiesIn(r, inflight)
                            /\ resp'.room # r.pid

\* the handler that pushed a comment to task t is at the read that precedes
\* its emit
CommentEmitPending(t) ==
  \E r \in BagToSet(inflight') : r.pc = "addComment.findById" /\ r.tid = t

\* C13 as stated: every task create, update, delete and comment that succeeds
\* emits its lifecycle event to the channel of the task's project, a request
\* answered 400, 403 or 404 emits none, and every step that changes a stored
\* task emits the event that describes the change to the task's project (a
\* comment's handler emits it at its next step, after reading the task back).
C13_EveryMutationEmits ==
  [][/\ ~RejectionEmits
     /\ ~SuccessIsSilent
     /\ \A r \in InFlight :
          AddCommentReply(r)
            => resp'.event = "comment-added" /\ resp'.room = tasks[r.tid].project
     /\ \A t \in TaskIds :
          tasks'[t] # tasks[t]
            => \/ /\ resp'.event = MutationEvent(tasks[t], tasks'[t])
                  /\ resp'.room = tasks'[t].project
               \/ /\ MutationEvent(tasks[t], tasks'[t]) = "comment-added"
                  /\ CommentEmitPending(t)]_vars

SumOver(f, S) == totalOf(f, S)

\* C15 as stated: in every dashboard response the counts of the status
\* distribution sum to the reported totalTasks, also when tasks are created
\* or deleted while the dashboard request is being served.
C15_StatusCountsSumToTotal ==
  (resp.kind = "dashboard" /\ resp.code = 200)
    => SumOver(resp.body.statusStats, TaskStatuses) = resp.body.totalTasks

\* the tasks the claim allows a statistic for user u to be computed from:
\* not archived, in a stored project u owns or is a member of
InScope(u) ==
  {t \in TaskIds : /\ Live(tasks[t]) /\ ~tasks[t].isArchived
                   /\ Live(ProjectOf(tasks[t]))
                   /\ (u = ProjectOf(tasks[t]).owner \/ IsMember(u, ProjectOf(tasks[t])))}

\* the statistics of a response are those of the set S of tasks
ComputedFrom(body, S) ==
  /\ body.tasks = S
  /\ body.totalTasks = Cardinality(S)
  /\ \A s \in TaskStatuses : body.statusStats[s] = Cardinality({t \in S : tasks[t].status = s})

\* C16 as stated: the statistics of the dashboard, of the per-user stats and
\* of the project analytics are computed from the caller's tasks in scope
\* only: all of them for the dashboard, those assigned to the caller for the
\* per-user stats, those of the project for the project analytics.
C16_StatsInScope ==
  [][/\ \A r \in InFlight :
          /\ DashboardTotal(r) => ComputedFrom(resp'.body, InScope(r.caller))
          /\ MyStatsRecent(r)
               => ComputedFrom(resp'.body, {t \in InScope(r.caller) : tasks[t].assignee = r.caller})
     /\ \A u \in Users, p \in ProjectIds :
          (ProjectAnalytics(u, p) /\ resp'.code = 200)
            => ComputedFrom(resp'.body, {t \in InScope(u) : tasks[t].project = p})]_vars

\* ---- the task list
\* the tasks the claim says a list request of user u returns: not archived,
\* in a project u owns or is a member of, with the status and in the project
\* the query names, if it names one
Listed(u, status, project) ==
  {t \in DOMAIN tasks : /\ Live(tasks[t]) /\ ~tasks[t].isArchived
                        /\ Live(ProjectOf(tasks[t]))
                        /\ (u = ProjectOf(tasks[t]).owner \/ IsMember(u, ProjectOf(tasks[t])))
                        /\ (status = "undefined" \/ tasks[t].status = status)
                        /\ (project = 0 \/ tasks[t].project = project)}

\* C17 as stated: GET /tasks returns exactly the non-archived tasks of the
\* caller's accessible projects that match every supplied filter; with a
\* project filter, no task of another project is returned.
C17_ListMatchesFilters ==
  [][\A r \in InFlight :
       GetTasksCount(r)
         => /\ resp'.body.tasks = Listed(r.caller, r.status, r.pid)
            /\ resp'.body.totalTasks = Cardinality(Listed(r.caller, r.status, r.pid))]_vars

\* ---- update validation
\* the request r carries a progress outside [0,100] (-1: none supplied)
InvalidProgress(r) == r.progress # -1 /\ ~validProgress(r.progress)

\* C18 as stated: a task update that carries an invalid field (a status
\* outside the enum, a progress outside [0,100]) is answered 400 and leaves
\* the stored task unchanged.
C18_InvalidUpdateIs400 ==
  [][/\ \A u \in Users, t \in TaskIds, progress \in ProgressInputs :
          UpdateTask(u, t, "bogus", progress) => Refused(400)
     /\ \A r \in InFlight :
          (UpdateTaskSave(r) /\ InvalidProgress(r))
            => resp'.code = 400 /\ tasks' = tasks]_vars

\* ---- comments
\* C19 as stated: a successful addComment appends exactly one comment, by the
\* caller, at the end of the task's comments and changes no other field of
\* the task, and the comment it returns is that comment, also when another
\* comment is added to the task concurrently.
C19_ReturnsOwnComment ==
  [][\A r \in InFlight :
       /\ (AddCommentSave(r) /\ Live(tasks[r.tid]))
            => tasks' = [tasks EXCEPT ![r.tid].comments = Append(@, r.caller)]
       /\ (AddCommentReply(r) /\ resp'.code = 201)
            => resp'.comment = r.caller]_vars

\* ---- reporter and project of a task
\* C20: the task a create request stores has the caller as reporter and the
\* project of the request as project, and no step of an update or a comment
\* (nor any other step) changes the reporter or the project of a stored task.
C20_ReporterAndProjectFixed ==
  [][/\ \A r \in InFlight :
          CreateTaskSave(r)
            => \A t \in TaskIds :
                 Inserted(t) => tasks'[t].reporter = r.caller /\ tasks'[t].project = r.pid
     /\ \A t \in TaskIds :
          (Live(tasks[t]) /\ Live(tasks'[t]))
            => /\ tasks'[t].reporter = tasks[t].reporter
               /\ tasks'[t].project = tasks[t].project]_vars

\* C20 witness: a comment was just added to a task that a member who is not
\* the owner created for another user and that has since been updated to
\* completed.
C20_Witness ==
  /\ resp.kind = "addComment" /\ resp.code = 201
  /\ \E t \in TaskIds :
       /\ Live(tasks[t]) /\ Live(ProjectOf(tasks[t]))
       /\ tasks[t].status = "completed" /\ tasks[t].progress = 40
       /\ Len(tasks[t].comments) = 2
       /\ tasks[t].reporter # ProjectOf(tasks[t]).owner
       /\ tasks[t].assignee \notin {0, tasks[t].reporter}

\* ---- derived values
\* C21: the isOverdue of a task sent at the instant now is true iff its
\* dueDate is set, its status is not 'completed' and now is after dueDate; it
\* is false for a completed task, whatever its dueDate.
C21_OverdueIffPastDueAndOpen ==
  [][\A u \in Users, t \in TaskIds, now \in 1..MaxTime :
       (GetTaskAt(u, t, now) /\ resp'.code = 200)
         => /\ resp'.virtuals.isOverdue
                 <=> (/\ tasks[t].dueDate # NoDate
                      /\ tasks[t].status # "completed"
                      /\ now > tasks[t].dueDate)
            /\ tasks[t].status = "completed" => ~resp'.virtuals.isOverdue]_vars

\* C21 witness: a task was just sent as overdue: its due date is the first
\* instant and it is still to do.
C21_Witness ==
  /\ resp.kind = "getTask" /\ resp.code = 200 /\ resp.virtuals.isOverdue
  /\ \A t \in TaskIds : tasks[t].dueDate = 1 /\ tasks[t].status = "todo"

\* The number of completed subtasks of a task.
CompletedSubtasks(task) ==
  Cardinality({k \in DOMAIN task.subtasks : task.subtasks[k].completed})

\* round(100 * completed / total) in exact arithmetic, halves rounded up;
\* 0 for a task with no subtasks.
RoundedPercentage(task) ==
  IF Len(task.subtasks) = 0 THEN 0
  ELSE (200 * CompletedSubtasks(task) + Len(task.subtasks)) \div (2 * Len(task.subtasks))

\* The subtask completion of a served task lies within [0, 100] and is 0 for
\* a task with no subtasks.
SubtaskProgressInRange ==
  [][\A u \in Users, t \in TaskIds :
       GetTaskAt(u, t, 1) /\ resp'.code = 200 =>
         /\ resp'.virtuals.subtaskProgress \in 0..100
         /\ Len(tasks[t].subtasks) = 0 => resp'.virtuals.subtaskProgress = 0]_vars

\* The subtask completion differs from the exact rounded percentage by at
\* most one.
SubtaskProgressWithinOne ==
  [][\A u \in Users, t \in TaskIds :
       GetTaskAt(u, t, 1) /\ resp'.code = 200 =>
         resp'.virtuals.subtaskProgress \in
           {RoundedPercentage(tasks[t]) - 1, RoundedPercentage(tasks[t])}]_vars

\* 1 of 4 subtasks completed has been served as 25, and 1 of 8 (12.5) as 13.
SubtaskProgressExamples ==
  /\ resp.kind = "getTask" /\ resp.code = 200
  /\ \E t \in TaskIds :
       /\ Len(tasks[t].subtasks) \in {4, 8}
       /\ CompletedSubtasks(tasks[t]) = 1
       /\ resp.virtuals.subtaskProgress = (IF Len(tasks[t].subtasks) = 4 THEN 25 ELSE 13)

C23_StoredNumbersInRange ==
  \A t \in TaskIds :
    Live(tasks[t]) =>
      /\ tasks[t].progress \in 0..100
      /\ tasks[t].estimatedHours # NoNumber => tasks[t].estimatedHours \in 0..1000
      /\ tasks[t].actualHours # NoNumber => tasks[t].actualHours \in 0..1000

\* An update that carried a number out of range has been answered 500, and
\* the stored task holds the ends of both ranges.
C23_Witness ==
  /\ resp.kind = "updateTask" /\ resp.code = 500
  /\ \E t \in TaskIds :
       /\ Live(tasks[t])
       /\ tasks[t].progress = 100 /\ tasks[t].status # "completed"
       /\ tasks[t].estimatedHours = 1000

\* completedAt is set exactly when the status is 'completed'.
StampedIffCompleted(task) == task.completedAt # "undefined" <=> task.status = "completed"

\* The write of the update r leaves the task as serving r after what is
\* stored would: the updates applied one after the other, r last.
SerialLast(r) == tasks'[r.tid] = updatedTask(tasks[r.tid], r.status, r.progress)

\* The write of the update r leaves the task as serving r first and then an
\* update that accounts for what is stored would.
SerialFirst(r) ==
  \E status \in UpdateStatusInputs, progress \in UpdateProgressInputs :
    /\ tasks[r.tid] = updatedTask(r.snap, status, progress)
    /\ tasks'[r.tid] = updatedTask(updatedTask(r.snap, r.status, r.progress), status, progress)

\* The update r read the task before another update wrote it.
Overtaken(r) == r.pc = "updateTask.save" /\ Live(tasks[r.tid]) /\ tasks[r.tid] # r.snap

\* C24: when two updates of a task overlap (both read the task before either
\* saves), the task stored after the second save has completedAt set exactly
\* when its status is 'completed', and is the task that applying the two
\* updates in some serial order gives.
C24_ConcurrentUpdatesSerialize ==
  [][\A r \in InFlight :
       Overtaken(r) /\ UpdateTaskSave(r) /\ resp'.code = 200 =>
         /\ StampedIffCompleted(tasks'[r.tid])
         /\ SerialLast(r) \/ SerialFirst(r)]_vars

\* A token is stored and currentUser is non-null whenever isAuthenticated is
\* true (after the step).
AuthenticatedHasSession ==
  isAuthenticated' => token' # NoToken /\ currentUser' # NoUser

\* The step is the success response to a login or a register.
SignsIn == \E q \in pending : AuthResponse(q, TRUE)

\* C25: whenever isAuthenticated is true a token is stored and currentUser is
\* non-null, and once nobody is signed in (as after logout) the token,
\* currentUser and isAuthenticated stay cleared until a login or a register
\* succeeds, whatever the order of requests, responses and logout.
C25_AuthStateConsistent ==
  [][/\ AuthenticatedHasSession
     /\ SignedOut /\ ~SignedOut' => SignsIn]_vars

====
